---- MODULE Spec2Model ----
(***************************************************************************)
(* Model of the MCP weather clients (src/mcp-client).                      *)
(*                                                                         *)
(*  - gradio-client-gpt.py : MCPClient (connect_to_server, process_query,  *)
(*    cleanup) driven by Gradio callbacks through run_async onto one       *)
(*    shared asyncio event loop.  A coroutine runs atomically from one     *)
(*    suspending await to the next; every action below is one such run.    *)
(*  - weather-client-gpt.py : the Tk client (GUI.choose_and_connect,       *)
(*    GUI.async_main, GUI.send_query, MCPClient.connect / process).        *)
(*                                                                         *)
(* Optional values (Python None) are sequences of length 0 or 1.           *)
(* Strings the code inspects (paths, JSON argument strings) are sequences  *)
(* of characters or tokens; strings it only passes on are TLA+ strings.    *)
(***************************************************************************)
EXTENDS Integers, Sequences, FiniteSets, TLC

(* ------------------------------ bounds -------------------------------- *)
\* number of Gradio callback threads that may be inside run_async at once
NThreads == 2
\* number of tool-server channels that may be spawned in one behaviour
MaxChannels == 3
\* number of "Connect to Server" actions of the Tk client in one behaviour
MaxWorkers == 2
\* number of queries the Tk client's send_query enqueues in one behaviour
MaxSent == 2
\* number of user turns the chatbox history is followed for
MaxHistory == 1

None == <<>>
Some(v) == <<v>>
\* Python truthiness of an optional string: None and "" are falsy
Truthy(o) == o # None /\ o[1] # ""
\* Python `o or d` for an optional string
OrElse(o, d) == IF Truthy(o) THEN o[1] ELSE d

NoSession == 0

(* ------------------------------ inputs -------------------------------- *)
\* server script paths, as character sequences
PathPy == <<"w", ".", "p", "y">>
PathJs == <<"s", ".", "j", "s">>
PathSh == <<"w", ".", "s", "h">>
PathBare == <<"p", "y">>
Paths == {PathPy, PathJs, PathSh, PathBare}

Queries == {"What's the weather in Paris?", "Any alerts?"}

\* tool lists a tool server may answer list_tools with
ToolLists == {{"get_forecast"}, {"get_forecast", "get_alerts"}}
\* tool names the LLM may emit in a function call
FnNames == {"get_forecast", "get_alerts"}

\* the parsed empty JSON object {}
EmptyObject == <<>>

\* JSON argument strings, as token sequences; a key or value token stands
\* for the quoted string literal
ArgEmptyObj == <<"{", "}">>
ArgCity == <<"{", "city", ":", "Paris", "}">>
ArgBroken == <<"{", "city">>
ArgTwo == <<"{", "city", ":", "Paris", ",", "state", ":", "CA", "}">>
ArgStrings ==
  {None, Some(<<>>), Some(ArgEmptyObj), Some(ArgCity), Some(ArgTwo), Some(ArgBroken)}
JsonLiterals == {"city", "Paris", "state", "CA"}

\* responses of the LLM capability: choices[0].message
NoFunctionCall == None
FunctionCall(name, arguments) == Some([name |-> name, arguments |-> arguments])
LlmContents == {None, Some(""), Some("It's sunny and 22C in Paris.")}
LlmMessages ==
  [content : LlmContents, function_call : {NoFunctionCall}]
    \cup {[content |-> None, function_call |-> FunctionCall(n, a)] :
            n \in FnNames, a \in ArgStrings}
\* a follow-up response may again carry a function call
FollowMessages ==
  [content : LlmContents, function_call : {NoFunctionCall}]
    \cup {[content |-> None, function_call |-> FunctionCall("get_alerts", Some(ArgEmptyObj))]}

\* tool outputs (tool_res.content): a list of content items, an object with
\* a .content attribute, or anything else; str is the value's own str()
Item(text, content, str) == [text |-> text, content |-> content, str |-> str]
TextItem(s) == Item(Some(s), None, "TextContent(" \o s \o ")")
ImageItem == Item(None, None, "ImageContent()")
ListOut(items) == [shape |-> "list", items |-> items, content |-> None, str |-> "[...]"]
ObjectOut(c) == [shape |-> "object", items |-> <<>>, content |-> Some(c), str |-> "Result()"]
ScalarOut(s) == [shape |-> "scalar", items |-> <<>>, content |-> None, str |-> s]
ToolOutputs ==
  { ListOut(<<TextItem("Sunny, 22C")>>),
    ListOut(<<TextItem("Sunny, 22C"), ImageItem>>),
    ListOut(<<TextItem(""), TextItem("Sunny, 22C")>>),
    ListOut(<<>>),
    ObjectOut("Rain"),
    ScalarOut("42") }

(* --------------------------- pure functions --------------------------- *)
\* str.endswith(suffix)
EndsWith(s, suf) ==
  Len(s) >= Len(suf) /\ SubSeq(s, Len(s) - Len(suf) + 1, Len(s)) = suf

\* a suffix test without the dot: endswith(('py', 'js'))
SupportedTarget_NoDot(path) ==
  EndsWith(path, <<"p", "y">>) \/ EndsWith(path, <<"j", "s">>)

\* server_script_path.endswith(('.py', '.js'))
SupportedTarget(path) ==
  EndsWith(path, <<".", "p", "y">>) \/ EndsWith(path, <<".", "j", "s">>)

\* the members of a JSON object: key ":" value ("," key ":" value)*, read
\* left to right into acc; a later duplicate key replaces an earlier one
RECURSIVE JsonMembers(_, _)
JsonMembers(toks, acc) ==
  IF Len(toks) < 3 \/ toks[1] \notin JsonLiterals \/ toks[2] # ":"
     \/ toks[3] \notin JsonLiterals
  THEN [ok |-> FALSE, value |-> acc]
  ELSE LET acc2 == (toks[1] :> toks[3]) @@ acc
       IN IF Len(toks) = 3 THEN [ok |-> TRUE, value |-> acc2]
          ELSE IF toks[4] # "," THEN [ok |-> FALSE, value |-> acc]
          ELSE JsonMembers(SubSeq(toks, 5, Len(toks)), acc2)

\* json.loads on an argument string: ok = FALSE is json.JSONDecodeError
JsonLoads(toks) ==
  IF Len(toks) < 2 \/ toks[1] # "{" \/ toks[Len(toks)] # "}"
  THEN [ok |-> FALSE, value |-> <<>>]
  ELSE IF Len(toks) = 2 THEN [ok |-> TRUE, value |-> <<>>]
  ELSE JsonMembers(SubSeq(toks, 2, Len(toks) - 1), <<>>)

\* json.loads(msg.function_call.arguments) when arguments is not None: the
\* empty string is not defaulted
ParseArguments_NoneOnly(arguments) ==
  JsonLoads(IF arguments = None THEN ArgEmptyObj ELSE arguments[1])

\* json.loads(msg.function_call.arguments or "{}")
ParseArguments(arguments) ==
  JsonLoads(IF arguments = None \/ arguments[1] = <<>> THEN ArgEmptyObj ELSE arguments[1])

\* getattr(item, 'text', None) or getattr(item, 'content', None) or str(item)
Piece(item) ==
  IF Truthy(item.text) THEN item.text[1]
  ELSE IF Truthy(item.content) THEN item.content[1]
  ELSE item.str

\* "\n".join(pieces)
RECURSIVE JoinLines(_)
JoinLines(pieces) ==
  IF pieces = <<>> THEN ""
  ELSE IF Len(pieces) = 1 THEN pieces[1]
  ELSE pieces[1] \o "\n" \o JoinLines(Tail(pieces))

\* the normalization of tool_res.content in process_query
Normalize(raw_content) ==
  IF raw_content.shape = "list"
  THEN JoinLines([i \in 1..Len(raw_content.items) |-> Piece(raw_content.items[i])])
  ELSE IF raw_content.content # None THEN raw_content.content[1]
  ELSE raw_content.str

(* ------------------------------- state -------------------------------- *)
VARIABLES
  session,           \* MCPClient.session: NoSession or the id of its channel
  server_connected,  \* MCPClient.server_connected
  tools,             \* MCPClient.tools: the tool list cached by connect
  exit_stack,        \* MCPClient.exit_stack: the entered contexts, last on top
  next_id,           \* id of the next tool-server channel to be spawned
  threads,           \* per Gradio callback thread: the coroutine it waits for
  last_call,         \* the client call that returned most recently, and
                     \* how often it called exit_stack.aclose()
  history,           \* the chatbox history chat() is handed: its user turns,
                     \* the last MaxHistory of them
  connected,         \* Tk GUI.connected
  query_q,           \* Tk GUI.query_q
  response_q,        \* Tk GUI.response_q
  workers,           \* Tk: the threads started by choose_and_connect
  sent,              \* Tk: how many queries send_query has enqueued
  chat               \* Tk: the "GPT: ..." lines check_responses has logged

\* the state of the Tk front end
gui == <<connected, query_q, response_q, workers, sent, chat>>
\* the state only the Gradio client has
gradio == <<server_connected, tools, threads, last_call, history>>

vars == <<session, server_connected, tools, exit_stack, next_id, threads, last_call,
          history, connected, query_q, response_q, workers, sent, chat>>

Threads == 1..NThreads

StdioCtx(id) == [kind |-> "stdio", id |-> id]
SessionCtx(id) == [kind |-> "session", id |-> id]

\* the tool-server channels (stdio_client contexts) the exit stack still owns
LiveChannels == {exit_stack[i].id : i \in {j \in 1..Len(exit_stack) : exit_stack[j].kind = "stdio"}}
\* the ClientSession contexts the exit stack still owns
LiveSessions == {exit_stack[i].id : i \in {j \in 1..Len(exit_stack) : exit_stack[j].kind = "session"}}

NoResult == [kind |-> "none", text |-> ""]
Result(kind, text) == [kind |-> kind, text |-> text]

\* no client call has returned yet
NoCall == [op |-> "none", acloses |-> 0]

\* a thread outside run_async
IdleThread ==
  [pc |-> "idle", op |-> "none", path |-> <<>>, query |-> "", sess |-> NoSession,
   id |-> 0, msg |-> None, raw |-> None, follow |-> None, log |-> <<>>,
   result |-> NoResult,
   acloses |-> 0, failed |-> "none"]

\* the coroutine of thread t returns r; failed names the call that raised
Finish(th, r, failed) ==
  [th EXCEPT !.pc = "done", !.result = r, !.failed = failed,
             !.sess = NoSession]

\* the calls a coroutine makes on its collaborators, in order
ListToolsCall(s) == [call |-> "list_tools", sess |-> s]
CallToolCall(s, name, args) == [call |-> "call_tool", sess |-> s, name |-> name, args |-> args]
LlmCall(messages, functions) == [call |-> "llm", messages |-> messages, functions |-> functions]

\* a session answers only while its context is still on the exit stack
SessionOpen(s) == s \in LiveSessions

Init ==
  /\ session = NoSession
  /\ server_connected = FALSE
  /\ tools = {}
  /\ exit_stack = <<>>
  /\ next_id = 1
  /\ threads = [t \in Threads |-> IdleThread]
  /\ last_call = NoCall
  /\ history = <<>>
  /\ connected = FALSE
  /\ query_q = <<>>
  /\ response_q = <<>>
  /\ workers = <<>>
  /\ sent = 0
  /\ chat = <<>>

(* ---------------------- MCPClient.cleanup (Gradio) -------------------- *)
\* `if self.session:`
CleanupGuard == session # NoSession

\* cleanup that forgets `self.session = None`
AfterAclose_KeepsSession ==
  /\ server_connected' = FALSE
  /\ UNCHANGED session

\* the two assignments after `await self.exit_stack.aclose()`
AfterAclose ==
  /\ server_connected' = FALSE
  /\ session' = NoSession

\* AsyncExitStack.aclose pops the top context and awaits its exit
PopTop == exit_stack' = SubSeq(exit_stack, 1, Len(exit_stack) - 1)

\* cleanup() from its call up to its first suspension or its return
CleanupStart(t) ==
  /\ threads[t].pc = "idle"
  /\ LET th == [threads[t] EXCEPT !.op = "cleanup"] IN
     IF ~CleanupGuard
     THEN /\ threads' = [threads EXCEPT ![t] = Finish(th, Result("disconnected", ""), "none")]
          /\ UNCHANGED <<session, server_connected, exit_stack>>
     ELSE IF exit_stack = <<>>
     THEN /\ AfterAclose
          /\ threads' = [threads EXCEPT ![t] =
                           Finish([th EXCEPT !.acloses = 1], Result("disconnected", ""), "none")]
          /\ UNCHANGED exit_stack
     ELSE /\ PopTop
          /\ threads' = [threads EXCEPT ![t] = [th EXCEPT !.pc = "cl_closing", !.acloses = 1]]
          /\ UNCHANGED <<session, server_connected>>
  /\ UNCHANGED <<tools, next_id, last_call, history, gui>>

\* aclose resumes: the next context, or the end of aclose and of cleanup
CleanupClosing(t) ==
  /\ threads[t].pc = "cl_closing"
  /\ IF exit_stack = <<>>
     THEN /\ AfterAclose
          /\ threads' = [threads EXCEPT ![t] =
                           Finish(threads[t], Result("disconnected", ""), "none")]
          /\ UNCHANGED exit_stack
     ELSE /\ PopTop
          /\ UNCHANGED <<session, server_connected, threads>>
  /\ UNCHANGED <<tools, next_id, last_call, history, gui>>

(* ----------------- MCPClient.connect_to_server (Gradio) --------------- *)
\* the code after `if self.server_connected: await self.cleanup()`: the
\* target check and the call of stdio_client
ConnectCheckTarget(t, th) ==
  IF ~SupportedTarget(th.path)
  THEN threads' = [threads EXCEPT ![t] = Finish(th, Result("unsupported", ""), "none")]
  ELSE threads' = [threads EXCEPT ![t] = [th EXCEPT !.pc = "conn_spawn"]]

\* `if self.server_connected:`
ReconnectGuard == server_connected

ConnectStart(t, path) ==
  /\ threads[t].pc = "idle"
  /\ next_id <= MaxChannels
  /\ LET th == [threads[t] EXCEPT !.op = "connect", !.path = path] IN
     IF ReconnectGuard /\ CleanupGuard
     THEN IF exit_stack = <<>>
          THEN /\ AfterAclose
               /\ ConnectCheckTarget(t, [th EXCEPT !.acloses = 1])
               /\ UNCHANGED exit_stack
          ELSE /\ PopTop
               /\ threads' = [threads EXCEPT ![t] =
                                [th EXCEPT !.pc = "conn_closing", !.acloses = 1]]
               /\ UNCHANGED <<session, server_connected>>
     ELSE /\ ConnectCheckTarget(t, th)
          /\ UNCHANGED <<session, server_connected, exit_stack>>
  /\ UNCHANGED <<tools, next_id, last_call, history, gui>>

\* the cleanup inside connect_to_server resumes
ConnectClosing(t) ==
  /\ threads[t].pc = "conn_closing"
  /\ IF exit_stack = <<>>
     THEN /\ AfterAclose
          /\ ConnectCheckTarget(t, threads[t])
          /\ UNCHANGED exit_stack
     ELSE /\ PopTop
          /\ UNCHANGED <<session, server_connected, threads>>
  /\ UNCHANGED <<tools, next_id, last_call, history, gui>>

\* `except Exception as e: return f"Connection error: {e}"`
ConnectFails(t, at) ==
  threads' = [threads EXCEPT ![t] = Finish(threads[t], Result("connection_error", at), at)]

\* stdio_client(params) is entered (the tool server is spawned) or raises
ConnectSpawn(t, ok) ==
  /\ threads[t].pc = "conn_spawn"
  /\ IF ok
     THEN /\ exit_stack' = Append(exit_stack, StdioCtx(next_id))
          /\ next_id' = next_id + 1
          /\ threads' = [threads EXCEPT ![t] = [@ EXCEPT !.pc = "conn_session", !.id = next_id]]
     ELSE /\ ConnectFails(t, "stdio_client")
          /\ UNCHANGED <<exit_stack, next_id>>
  /\ UNCHANGED <<session, server_connected, tools, last_call, history, gui>>

\* ClientSession(stdio, write) is entered or raises; then initialize() is called
ConnectSession(t, ok) ==
  /\ threads[t].pc = "conn_session"
  /\ IF ok /\ threads[t].id \in LiveChannels
     THEN /\ exit_stack' = Append(exit_stack, SessionCtx(threads[t].id))
          /\ session' = threads[t].id
          /\ threads' = [threads EXCEPT ![t] = [@ EXCEPT !.pc = "conn_init", !.sess = threads[t].id]]
     ELSE /\ ConnectFails(t, "ClientSession")
          /\ UNCHANGED <<exit_stack, session>>
  /\ UNCHANGED <<server_connected, tools, next_id, last_call, history, gui>>

\* initialize() returns or raises; then self.session.list_tools() is called
ConnectInit(t, ok) ==
  /\ threads[t].pc = "conn_init"
  /\ IF ~(ok /\ SessionOpen(threads[t].sess)) THEN ConnectFails(t, "initialize")
     ELSE IF session = NoSession THEN ConnectFails(t, "self.session")
     ELSE threads' = [threads EXCEPT ![t] = [@ EXCEPT !.pc = "conn_list", !.sess = session]]
  /\ UNCHANGED <<session, server_connected, tools, exit_stack, next_id, last_call, history, gui>>

\* list_tools() returns or raises; on return the client is marked connected
ConnectList(t, ok, resp_tools) ==
  /\ threads[t].pc = "conn_list"
  /\ IF ok /\ SessionOpen(threads[t].sess)
     THEN /\ tools' = resp_tools
          /\ server_connected' = TRUE
          /\ threads' = [threads EXCEPT ![t] = Finish(threads[t], Result("connected", ""), "none")]
     ELSE /\ ConnectFails(t, "list_tools")
          /\ UNCHANGED <<tools, server_connected>>
  /\ UNCHANGED <<session, exit_stack, next_id, last_call, history, gui>>

(* ------------------- MCPClient.process_query (Gradio) ----------------- *)
\* a guard that tests the session handle only
NotConnected_SessionOnly == session = NoSession

\* `if not self.server_connected or not self.session:`
NotConnected == ~server_connected \/ session = NoSession

\* a first call that sends the chatbox history before the query
FirstMessages_WithHistory(query) == history \o <<[role |-> "user", content |-> query]>>

\* messages of the first ChatCompletion call
FirstMessages(query) == <<[role |-> "user", content |-> query]>>

\* messages of the second ChatCompletion call
FollowupMessages(query, function_call, normalized) ==
  << [role |-> "user", content |-> query],
     [role |-> "assistant", function_call |-> function_call],
     [role |-> "function", name |-> function_call.name, content |-> normalized] >>

\* an except clause that swallows the error and answers ""
QueryFails_Swallowed(t, at) ==
  threads' = [threads EXCEPT ![t] = Finish(threads[t], Result("answer", ""), at)]

\* `except Exception as e: return f"Error: {e}"`
QueryFails(t, at) ==
  threads' = [threads EXCEPT ![t] = Finish(threads[t], Result("error", at), at)]

\* process_query from its call up to list_tools(), or its early return
QueryStart(t, query) ==
  /\ threads[t].pc = "idle"
  /\ LET th == [threads[t] EXCEPT !.op = "query", !.query = query] IN
     IF NotConnected
     THEN threads' = [threads EXCEPT ![t] = Finish(th, Result("not_connected", ""), "none")]
     ELSE threads' = [threads EXCEPT ![t] =
                        [th EXCEPT !.pc = "pq_list", !.sess = session,
                                   !.log = <<ListToolsCall(session)>>]]
  /\ UNCHANGED <<session, server_connected, tools, exit_stack, next_id, last_call, history, gui>>

\* list_tools() returns or raises; then the first ChatCompletion call
QueryList(t, ok, resp_tools) ==
  /\ threads[t].pc = "pq_list"
  /\ IF ok /\ SessionOpen(threads[t].sess)
     THEN threads' = [threads EXCEPT ![t] =
                        [@ EXCEPT !.pc = "pq_llm1",
                                  !.log = Append(@, LlmCall(FirstMessages(threads[t].query),
                                                            Some(resp_tools)))]]
     ELSE QueryFails(t, "list_tools")
  /\ UNCHANGED <<session, server_connected, tools, exit_stack, next_id, last_call, history, gui>>

\* `if msg.function_call:`
WantsTool(msg) == msg.function_call # NoFunctionCall

\* a return that drops the content
DirectAnswer_Empty(msg) == ""

\* `return msg.content or ""`
DirectAnswer(msg) == OrElse(msg.content, "")

\* `return follow.choices[0].message.content or ""`
FollowupAnswer(follow) == OrElse(follow.content, "")

\* the first ChatCompletion call returns msg or raises; then either the
\* direct answer, or the arguments are parsed and call_tool is called
QueryLlm1(t, ok, msg) ==
  /\ threads[t].pc = "pq_llm1"
  /\ IF ~ok THEN QueryFails(t, "llm")
     ELSE LET th == [threads[t] EXCEPT !.msg = Some(msg)] IN
       IF WantsTool(msg)
       THEN LET fc == msg.function_call[1]
                args == ParseArguments(fc.arguments)
            IN IF ~args.ok
               THEN threads' = [threads EXCEPT ![t] =
                                  Finish(th, Result("error", "json.loads"), "json.loads")]
               ELSE IF session = NoSession
               THEN threads' = [threads EXCEPT ![t] =
                                  Finish(th, Result("error", "self.session"), "self.session")]
               ELSE threads' = [threads EXCEPT ![t] =
                       [th EXCEPT !.pc = "pq_tool", !.sess = session,
                                  !.log = Append(@, CallToolCall(session, fc.name, args.value))]]
       ELSE threads' = [threads EXCEPT ![t] =
                          Finish(th, Result("answer", DirectAnswer(msg)), "none")]
  /\ UNCHANGED <<session, server_connected, tools, exit_stack, next_id, last_call, history, gui>>

\* a follow-up call that sends the function specs again
QueryTool_WithFunctions(t, ok, raw_content) ==
  /\ threads[t].pc = "pq_tool"
  /\ IF ok /\ SessionOpen(threads[t].sess)
     THEN threads' = [threads EXCEPT ![t] =
                        [@ EXCEPT !.pc = "pq_llm2", !.raw = Some(raw_content),
                                  !.log = Append(@, LlmCall(FollowupMessages(threads[t].query,
                                                              threads[t].msg[1].function_call[1],
                                                              Normalize(raw_content)),
                                                            threads[t].log[2].functions))]]
     ELSE QueryFails(t, "call_tool")
  /\ UNCHANGED <<session, server_connected, tools, exit_stack, next_id, last_call, history, gui>>

\* call_tool returns tool_res or raises; its content is normalized and the
\* second ChatCompletion call is made
QueryTool(t, ok, raw_content) ==
  /\ threads[t].pc = "pq_tool"
  /\ IF ok /\ SessionOpen(threads[t].sess)
     THEN threads' = [threads EXCEPT ![t] =
                        [@ EXCEPT !.pc = "pq_llm2", !.raw = Some(raw_content),
                                  !.log = Append(@, LlmCall(FollowupMessages(threads[t].query,
                                                              threads[t].msg[1].function_call[1],
                                                              Normalize(raw_content)),
                                                            None))]]
     ELSE QueryFails(t, "call_tool")
  /\ UNCHANGED <<session, server_connected, tools, exit_stack, next_id, last_call, history, gui>>

\* a second round: a follow-up response that carries a function call makes
\* the coroutine call the tool again
QueryLlm2_Loops(t, ok, follow) ==
  /\ threads[t].pc = "pq_llm2"
  /\ IF ok
     THEN IF WantsTool(follow) /\ Len(threads[t].log) < 6
          THEN threads' = [threads EXCEPT ![t] =
                  [@ EXCEPT !.follow = Some(follow), !.pc = "pq_tool",
                            !.log = Append(@, CallToolCall(threads[t].sess,
                                                 follow.function_call[1].name,
                                                 EmptyObject))]]
          ELSE threads' = [threads EXCEPT ![t] =
                        Finish([threads[t] EXCEPT !.follow = Some(follow)],
                               Result("answer", FollowupAnswer(follow)), "none")]
     ELSE QueryFails(t, "llm")
  /\ UNCHANGED <<session, server_connected, tools, exit_stack, next_id, last_call, history, gui>>

\* the second ChatCompletion call returns or raises
QueryLlm2(t, ok, follow) ==
  /\ threads[t].pc = "pq_llm2"
  /\ IF ok
     THEN threads' = [threads EXCEPT ![t] =
                        Finish([threads[t] EXCEPT !.follow = Some(follow)],
                               Result("answer", FollowupAnswer(follow)), "none")]
     ELSE QueryFails(t, "llm")
  /\ UNCHANGED <<session, server_connected, tools, exit_stack, next_id, last_call, history, gui>>

\* the last n elements of s
LastTurns(s, n) == IF Len(s) <= n THEN s ELSE SubSeq(s, Len(s) - n + 1, Len(s))

\* run_async(...).result() hands the coroutine's result to the callback;
\* chat returns the history with the turns of this query appended
Return(t) ==
  /\ threads[t].pc = "done"
  /\ last_call' = [op |-> threads[t].op, acloses |-> threads[t].acloses]
  /\ history' = IF threads[t].op = "query"
                THEN LastTurns(Append(history, [role |-> "user", content |-> threads[t].query]),
                               MaxHistory)
                ELSE history
  /\ threads' = [threads EXCEPT ![t] = IdleThread]
  /\ UNCHANGED <<session, server_connected, tools, exit_stack, next_id, gui>>

(* --------------------------- specifications --------------------------- *)
\* one user of the Gradio page, one callback at a time
Caller == 1

Next ==
  \/ \E p \in Paths : ConnectStart(Caller, p)
  \/ ConnectClosing(Caller)
  \/ \E ok \in BOOLEAN : ConnectSpawn(Caller, ok)
  \/ \E ok \in BOOLEAN : ConnectSession(Caller, ok)
  \/ \E ok \in BOOLEAN : ConnectInit(Caller, ok)
  \/ \E ok \in BOOLEAN, l \in ToolLists : ConnectList(Caller, ok, l)
  \/ CleanupStart(Caller)
  \/ CleanupClosing(Caller)
  \/ \E q \in Queries : QueryStart(Caller, q)
  \/ \E ok \in BOOLEAN, l \in ToolLists : QueryList(Caller, ok, l)
  \/ \E ok \in BOOLEAN, m \in LlmMessages : QueryLlm1(Caller, ok, m)
  \/ \E ok \in BOOLEAN, r \in ToolOutputs : QueryTool(Caller, ok, r)
  \/ \E ok \in BOOLEAN, m \in FollowMessages : QueryLlm2(Caller, ok, m)
  \/ Return(Caller)

Spec == Init /\ [][Next]_vars

(* ------------- concurrent callbacks on the shared event loop ---------- *)
\* inputs of the interleaved specification
ConcPaths == {PathPy}
ConcQueries == {"What's the weather in Paris?"}
ConcToolLists == {{"get_forecast"}}
ConcMessages ==
  { [content |-> Some("It's sunny and 22C in Paris."), function_call |-> NoFunctionCall],
    [content |-> None, function_call |-> FunctionCall("get_forecast", Some(ArgCity))] }
ConcToolOutputs == {ListOut(<<TextItem("Sunny, 22C")>>)}

\* any Gradio callback thread may have a coroutine on the event loop, and
\* the loop resumes any of the suspended coroutines
NextConc ==
  \E t \in Threads :
    \/ \E p \in ConcPaths : ConnectStart(t, p)
    \/ ConnectClosing(t)
    \/ \E ok \in BOOLEAN : ConnectSpawn(t, ok)
    \/ \E ok \in BOOLEAN : ConnectSession(t, ok)
    \/ \E ok \in BOOLEAN : ConnectInit(t, ok)
    \/ \E ok \in BOOLEAN, l \in ConcToolLists : ConnectList(t, ok, l)
    \/ CleanupStart(t)
    \/ CleanupClosing(t)
    \/ \E q \in ConcQueries : QueryStart(t, q)
    \/ \E ok \in BOOLEAN, l \in ConcToolLists : QueryList(t, ok, l)
    \/ \E ok \in BOOLEAN, m \in ConcMessages : QueryLlm1(t, ok, m)
    \/ \E ok \in BOOLEAN, r \in ConcToolOutputs : QueryTool(t, ok, r)
    \/ \E ok \in BOOLEAN, m \in ConcMessages : QueryLlm2(t, ok, m)
    \/ Return(t)

SpecConc == Init /\ [][NextConc]_vars

(* ------------------- the Tk client (weather-client-gpt.py) ------------ *)
\* a thread started by choose_and_connect, running async_main
Worker(pc, path, reconnect) ==
  [pc |-> pc, path |-> path, id |-> 0, sess |-> NoSession, n |-> 0, query |-> "",
   msg |-> None, log |-> <<>>, reconnect |-> reconnect]

\* an entry of response_q: the string put, for the n-th query enqueued
Response(kind, text, n) == [kind |-> kind, text |-> text, n |-> n]

\* the outer `except Exception` of async_main: the thread logs and ends
WorkerEnds(w) == workers' = [workers EXCEPT ![w] = [@ EXCEPT !.pc = "ended"]]

\* the inner `except Exception` of async_main: response_q.put(f"Error: {e}")
\* and the loop goes back to query_q.get
ProcessFails(w, at) ==
  /\ response_q' = Append(response_q, Response("error", at, workers[w].n))
  /\ workers' = [workers EXCEPT ![w] = [@ EXCEPT !.pc = "waiting"]]

\* process returns resp: response_q.put(resp) and back to query_q.get
ProcessReturns(w, wk, text) ==
  /\ response_q' = Append(response_q, Response("answer", text, wk.n))
  /\ workers' = [workers EXCEPT ![w] = [wk EXCEPT !.pc = "waiting"]]

\* GUI.choose_and_connect: unless the dialog was cancelled, a new thread runs
\* async_main, and in it MCPClient.connect up to the call of stdio_client,
\* or its ValueError
ChooseAndConnect(path) ==
  /\ Len(workers) < MaxWorkers
  /\ next_id <= MaxChannels
  /\ IF path = <<>>
     THEN UNCHANGED workers
     ELSE workers' = Append(workers,
                            Worker(IF SupportedTarget(path) THEN "c_spawn" ELSE "ended",
                                   path, connected))
  /\ UNCHANGED <<session, exit_stack, next_id, connected, query_q, response_q, sent, chat, gradio>>

\* MCPClient.connect: stdio_client(params) is entered or raises
TkSpawn(w, ok) ==
  /\ workers[w].pc = "c_spawn"
  /\ IF ok
     THEN /\ exit_stack' = Append(exit_stack, StdioCtx(next_id))
          /\ next_id' = next_id + 1
          /\ workers' = [workers EXCEPT ![w] = [@ EXCEPT !.pc = "c_session", !.id = next_id]]
     ELSE /\ WorkerEnds(w)
          /\ UNCHANGED <<exit_stack, next_id>>
  /\ UNCHANGED <<session, connected, query_q, response_q, sent, chat, gradio>>

\* MCPClient.connect: ClientSession is entered or raises; initialize() is called
TkSession(w, ok) ==
  /\ workers[w].pc = "c_session"
  /\ IF ok
     THEN /\ exit_stack' = Append(exit_stack, SessionCtx(workers[w].id))
          /\ session' = workers[w].id
          /\ workers' = [workers EXCEPT ![w] = [@ EXCEPT !.pc = "c_init", !.sess = workers[w].id]]
     ELSE /\ WorkerEnds(w)
          /\ UNCHANGED <<exit_stack, session>>
  /\ UNCHANGED <<next_id, connected, query_q, response_q, sent, chat, gradio>>

\* initialize() returns or raises; on return async_main sets connected and
\* waits in query_q.get
TkInit(w, ok) ==
  /\ workers[w].pc = "c_init"
  /\ IF ok
     THEN /\ connected' = TRUE
          /\ workers' = [workers EXCEPT ![w] = [@ EXCEPT !.pc = "waiting"]]
     ELSE /\ WorkerEnds(w)
          /\ UNCHANGED connected
  /\ UNCHANGED <<session, exit_stack, next_id, query_q, response_q, sent, chat, gradio>>

\* GUI.send_query with the stripped entry text q
SendQuery(q) ==
  /\ sent < MaxSent
  /\ IF ~connected \/ q = ""
     THEN UNCHANGED <<query_q, sent>>
     ELSE /\ query_q' = Append(query_q, [n |-> sent + 1, text |-> q])
          /\ sent' = sent + 1
  /\ UNCHANGED <<session, exit_stack, next_id, connected, response_q, workers, chat, gradio>>

\* async_main: query_q.get returns a query; process calls list_tools()
TkTake(w) ==
  /\ workers[w].pc = "waiting"
  /\ query_q # <<>>
  /\ query_q' = Tail(query_q)
  /\ workers' = [workers EXCEPT ![w] =
                   [@ EXCEPT !.pc = "p_list", !.n = Head(query_q).n,
                             !.query = Head(query_q).text, !.sess = session, !.msg = None,
                             !.log = <<ListToolsCall(session)>>]]
  /\ UNCHANGED <<session, exit_stack, next_id, connected, response_q, sent, chat, gradio>>

\* process: list_tools() returns or raises; the first ChatCompletion call
TkList(w, ok, resp_tools) ==
  /\ workers[w].pc = "p_list"
  /\ IF ok /\ SessionOpen(workers[w].sess)
     THEN /\ workers' = [workers EXCEPT ![w] =
                [@ EXCEPT !.pc = "p_llm1",
                          !.log = Append(@, LlmCall(FirstMessages(workers[w].query),
                                                    Some(resp_tools)))]]
          /\ UNCHANGED response_q
     ELSE ProcessFails(w, "list_tools")
  /\ UNCHANGED <<session, exit_stack, next_id, connected, query_q, sent, chat, gradio>>

\* process: the messages after the two appends
TkFollowupMessages(query, function_call, content) ==
  << [role |-> "user", content |-> query],
     [role |-> "assistant", content |-> None, function_call |-> function_call],
     [role |-> "function", name |-> function_call.name, content |-> content] >>

\* process: the first ChatCompletion call returns msg or raises
TkLlm1(w, ok, msg) ==
  /\ workers[w].pc = "p_llm1"
  /\ IF ~ok THEN ProcessFails(w, "llm")
     ELSE LET wk == [workers[w] EXCEPT !.msg = Some(msg)] IN
       IF WantsTool(msg)
       THEN LET fc == msg.function_call[1]
                args == ParseArguments(fc.arguments)
            IN IF ~args.ok
               THEN /\ response_q' = Append(response_q, Response("error", "json.loads", wk.n))
                    /\ workers' = [workers EXCEPT ![w] = [wk EXCEPT !.pc = "waiting"]]
               ELSE /\ workers' = [workers EXCEPT ![w] =
                         [wk EXCEPT !.pc = "p_tool", !.sess = session,
                                    !.log = Append(@, CallToolCall(session, fc.name, args.value))]]
                    /\ UNCHANGED response_q
       ELSE ProcessReturns(w, wk, DirectAnswer(msg))
  /\ UNCHANGED <<session, exit_stack, next_id, connected, query_q, sent, chat, gradio>>

\* process: call_tool returns tool_resp or raises; its content goes into the
\* messages as it is and the second ChatCompletion call is made
TkTool(w, ok, raw_content) ==
  /\ workers[w].pc = "p_tool"
  /\ IF ok /\ SessionOpen(workers[w].sess)
     THEN /\ workers' = [workers EXCEPT ![w] =
                [@ EXCEPT !.pc = "p_llm2",
                          !.log = Append(@, LlmCall(TkFollowupMessages(workers[w].query,
                                                      workers[w].msg[1].function_call[1],
                                                      raw_content),
                                                    None))]]
          /\ UNCHANGED response_q
     ELSE ProcessFails(w, "call_tool")
  /\ UNCHANGED <<session, exit_stack, next_id, connected, query_q, sent, chat, gradio>>

\* process: the second ChatCompletion call returns or raises
TkLlm2(w, ok, follow) ==
  /\ workers[w].pc = "p_llm2"
  /\ IF ok THEN ProcessReturns(w, workers[w], FollowupAnswer(follow))
     ELSE ProcessFails(w, "llm")
  /\ UNCHANGED <<session, exit_stack, next_id, connected, query_q, sent, chat, gradio>>

\* GUI.check_responses: every queued response is logged to the chat
CheckResponses ==
  /\ response_q # <<>>
  /\ chat' = chat \o response_q
  /\ response_q' = <<>>
  /\ UNCHANGED <<session, exit_stack, next_id, connected, query_q, workers, sent, gradio>>

\* the file dialog's answers: a script, another file, or "" when cancelled
TkPaths == {PathPy, PathSh, <<>>}
TkTexts == {"", "What's the weather in Paris?"}

NextTk ==
  \/ \E p \in TkPaths : ChooseAndConnect(p)
  \/ \E w \in 1..Len(workers), ok \in BOOLEAN : TkSpawn(w, ok)
  \/ \E w \in 1..Len(workers), ok \in BOOLEAN : TkSession(w, ok)
  \/ \E w \in 1..Len(workers), ok \in BOOLEAN : TkInit(w, ok)
  \/ \E q \in TkTexts : SendQuery(q)
  \/ \E w \in 1..Len(workers) : TkTake(w)
  \/ \E w \in 1..Len(workers), ok \in BOOLEAN, l \in ConcToolLists : TkList(w, ok, l)
  \/ \E w \in 1..Len(workers), ok \in BOOLEAN, m \in ConcMessages : TkLlm1(w, ok, m)
  \/ \E w \in 1..Len(workers), ok \in BOOLEAN, r \in ConcToolOutputs : TkTool(w, ok, r)
  \/ \E w \in 1..Len(workers), ok \in BOOLEAN, m \in ConcMessages : TkLlm2(w, ok, m)
  \/ CheckResponses

SpecTk == Init /\ [][NextTk]_vars

(* ------------------------------- claims ------------------------------- *)
\* the finished process_query executions
DoneQueries == {t \in Threads : threads[t].pc = "done" /\ threads[t].op = "query"}

\* the positions of a coroutine's log that hold calls of one kind
CallsOf(th, kind) == {i \in 1..Len(th.log) : th.log[i].call = kind}

\* the calls on collaborators: tool channel and LLM
CollaboratorCalls == {"list_tools", "llm", "call_tool"}

\* the first LLM response of th asked for a tool of the list fetched in the
\* same query, and no collaborator call failed
ToolPathCase(th) ==
  /\ th.msg # None
  /\ WantsTool(th.msg[1])
  /\ th.msg[1].function_call[1].name \in th.log[2].functions[1]
  /\ th.failed \notin CollaboratorCalls

\* C1: on the tool path (first LLM response requests a listed tool, no
\* collaborator call fails) call_tool is invoked exactly once with that name
\* and the parsed arguments, then exactly one follow-up LLM call is made with
\* the 3 messages user, assistant tool-call, tool-result, and its content is
\* the returned answer.
C1_ToolPath ==
  \A t \in DoneQueries :
    LET th == threads[t] IN
    ToolPathCase(th) =>
      LET fc == th.msg[1].function_call[1] IN
      /\ Cardinality(CallsOf(th, "call_tool")) = 1
      /\ Len(th.log) = 4
      /\ th.log[3].call = "call_tool"
      /\ th.log[3].name = fc.name
      /\ ParseArguments(fc.arguments).ok
      /\ th.log[3].args = ParseArguments(fc.arguments).value
      /\ Cardinality(CallsOf(th, "llm")) = 2
      /\ th.log[4].call = "llm"
      /\ Len(th.log[4].messages) = 3
      /\ th.log[4].messages[1] = [role |-> "user", content |-> th.query]
      /\ th.log[4].messages[2].role = "assistant"
      /\ th.log[4].messages[2].function_call = fc
      /\ th.log[4].messages[3].role = "function"
      /\ th.follow # None
      /\ th.result = Result("answer", OrElse(th.follow[1].content, ""))

\* C2: on the no-tool path (first LLM response carries direct content and no
\* function call) process_query returns exactly that content, makes exactly
\* one LLM call and never calls call_tool.
C2_NoToolPath ==
  \A t \in DoneQueries :
    LET th == threads[t] IN
    (th.msg # None /\ th.msg[1].function_call = NoFunctionCall /\ th.msg[1].content # None) =>
      /\ th.result = Result("answer", th.msg[1].content[1])
      /\ Cardinality(CallsOf(th, "llm")) = 1
      /\ CallsOf(th, "call_tool") = {}
      /\ Len(th.log) = 2

\* a no-tool query has returned its non-empty direct content
C2_Witness ==
  \E t \in DoneQueries :
    /\ threads[t].msg # None
    /\ threads[t].msg[1].function_call = NoFunctionCall
    /\ threads[t].msg[1].content = Some("It's sunny and 22C in Paris.")
    /\ threads[t].result.kind = "answer"

\* the process_query executions between their start and their return
QueriesInFlight ==
  {t \in Threads : threads[t].pc \in {"pq_list", "pq_llm1", "pq_tool", "pq_llm2"}}

\* C3: at most one query is in flight against the session at a time: no
\* reachable state has two process_query executions between start and return.
C3_OneQueryInFlight == Cardinality(QueriesInFlight) <= 1

\* the connect actions of the Tk client made while it was already connected
Reconnects == {w \in 1..Len(workers) : workers[w].reconnect}

\* C4: reconnect safety: when connect is called while already connected, at
\* most one tool-server channel is live during and after the call, and
\* exactly one once the call has succeeded.
C4_ReconnectSafety ==
  \A w \in Reconnects :
    /\ Cardinality(LiveChannels) <= 1
    /\ workers[w].pc \notin {"c_spawn", "c_session", "c_init", "ended"}
         => Cardinality(LiveChannels) = 1

\* the connect_to_server executions that returned an error
FailedConnects ==
  {t \in Threads : /\ threads[t].pc = "done"
                   /\ threads[t].op = "connect"
                   /\ threads[t].result.kind \in {"unsupported", "connection_error"}}

\* C5: a failed connect leaves the session fully Disconnected: on return
\* server_connected is false, the session handle is unset and no channel
\* opened by that call is still live in the exit stack.
C5_FailedConnectDisconnected ==
  \A t \in FailedConnects :
    /\ ~server_connected
    /\ session = NoSession
    /\ threads[t].id \notin LiveChannels

\* C6: once cleanup() has returned, from whatever state it was called, the
\* exit stack owns no live channel or session, server_connected is false and
\* the session handle is unset.
C6_CleanupReleasesAll ==
  \A t \in Threads :
    (threads[t].pc = "done" /\ threads[t].op = "cleanup") =>
      /\ exit_stack = <<>>
      /\ ~server_connected
      /\ session = NoSession

\* thread t calls op in this step
Calls(t, op) == threads[t].pc = "idle" /\ threads'[t].pc # "idle" /\ threads'[t].op = op

\* the client is as __init__ left it
NeverConnected ==
  session = NoSession /\ ~server_connected /\ exit_stack = <<>> /\ next_id = 1

\* C7: idempotent disconnect: a cleanup() called right after a cleanup(), or
\* on a never-connected client, returns at once without error, calls no
\* aclose() and leaves the client state as it was.
C7_IdempotentDisconnect ==
  [][\A t \in Threads :
       (Calls(t, "cleanup") /\ (last_call.op = "cleanup" \/ NeverConnected)) =>
         /\ threads'[t].pc = "done"
         /\ threads'[t].result = Result("disconnected", "")
         /\ threads'[t].acloses = 0
         /\ UNCHANGED <<session, server_connected, exit_stack, tools>>]_vars

\* a second cleanup() has returned right after one that closed the exit stack
C7_Witness ==
  /\ last_call = [op |-> "cleanup", acloses |-> 1]
  /\ threads[Caller].pc = "done"
  /\ threads[Caller].op = "cleanup"
  /\ threads[Caller].acloses = 0
  /\ next_id > 1

\* C8: a process_query called while the session is not Connected ends at
\* once with the not-connected result, calls neither list_tools nor the LLM
\* nor call_tool, and leaves the session as it was.
C8_QueryNotConnected ==
  [][\A t \in Threads :
       (Calls(t, "query") /\ (~server_connected \/ session = NoSession)) =>
         /\ threads'[t].pc = "done"
         /\ threads'[t].result = Result("not_connected", "")
         /\ threads'[t].log = <<>>
         /\ UNCHANGED <<session, server_connected, exit_stack, tools>>]_vars

\* a query after a connect that failed partway got the not-connected result
C8_Witness ==
  /\ threads[Caller].pc = "done"
  /\ threads[Caller].op = "query"
  /\ threads[Caller].result.kind = "not_connected"
  /\ last_call.op = "connect"
  /\ session # NoSession

\* thread t runs a piece of process_query in this step
QueryStep(t) == threads'[t] # threads[t] /\ threads'[t].op = "query"

\* C9: when list_tools, an LLM call or call_tool fails, process_query ends
\* with one error string, the failing call is the last call it made (no
\* retry, no follow-up LLM call after a failed tool call), and no step of
\* the query changes server_connected, the session handle or the exit stack.
C9_FailureAbortsOnlyQuery ==
  /\ [](\A t \in DoneQueries :
          LET th == threads[t] IN
          th.failed \in CollaboratorCalls =>
            /\ th.result = Result("error", th.failed)
            /\ th.log # <<>>
            /\ th.log[Len(th.log)].call = th.failed
            /\ Cardinality(CallsOf(th, th.failed)) = (IF th.failed = "llm" /\ Len(th.log) = 4 THEN 2 ELSE 1)
            /\ (th.failed = "call_tool" => Cardinality(CallsOf(th, "llm")) = 1))
  /\ [][\A t \in Threads :
          QueryStep(t) => UNCHANGED <<session, server_connected, exit_stack, tools>>]_vars

\* a query on a connected session has ended in an error after call_tool failed
C9_Witness ==
  /\ threads[Caller].pc = "done"
  /\ threads[Caller].op = "query"
  /\ threads[Caller].failed = "call_tool"
  /\ threads[Caller].result.kind = "error"
  /\ server_connected
  /\ session \in LiveSessions

\* C10: call_tool is never invoked with a name that is absent from the tool
\* list fetched by list_tools in the same query.
C10_ToolNameValidated ==
  \A t \in Threads :
    \A i \in CallsOf(threads[t], "call_tool") :
      threads[t].op = "query" => threads[t].log[i].name \in threads[t].log[2].functions[1]

\* the arguments string is neither absent nor empty and is not valid JSON
Malformed(arguments) ==
  arguments # None /\ arguments[1] # <<>> /\ ~JsonLoads(arguments[1]).ok

\* C11: when the tool-invocation request's arguments string is not valid
\* JSON (and no collaborator call fails), process_query invokes the tool with
\* the empty object {} and goes on to the follow-up LLM call instead of
\* ending in an error.
C11_MalformedArgumentsDefault ==
  \A t \in DoneQueries :
    LET th == threads[t] IN
    (/\ th.msg # None
     /\ WantsTool(th.msg[1])
     /\ Malformed(th.msg[1].function_call[1].arguments)
     /\ th.failed \notin CollaboratorCalls) =>
      /\ th.result.kind = "answer"
      /\ Len(th.log) = 4
      /\ th.log[3].call = "call_tool"
      /\ th.log[3].args = EmptyObject
      /\ th.log[4].call = "llm"

\* the process_query executions whose first LLM response asked for a tool
\* and that got as far as handling it
ToolRequests ==
  {t \in Threads : /\ threads[t].op = "query"
                   /\ threads[t].msg # None
                   /\ WantsTool(threads[t].msg[1])}

\* C12: when the arguments string is missing or empty, call_tool is invoked
\* with {}; otherwise, whenever call_tool is invoked, it is invoked with the
\* object the arguments string parses to.
C12_ArgumentsDefault ==
  \A t \in ToolRequests :
    LET th == threads[t]
        arguments == th.msg[1].function_call[1].arguments
    IN /\ (arguments = None \/ arguments = Some(<<>>)) =>
             /\ Len(th.log) >= 3
             /\ th.log[3].call = "call_tool"
             /\ th.log[3].args = EmptyObject
       /\ (arguments # None /\ arguments # Some(<<>>) /\ Len(th.log) >= 3) =>
             /\ JsonLoads(arguments[1]).ok
             /\ th.log[3].args = JsonLoads(arguments[1]).value
       /\ (arguments = Some(ArgCity) /\ Len(th.log) >= 3) =>
             th.log[3].args = [k \in {"city"} |-> "Paris"]
       /\ (arguments = Some(ArgTwo) /\ Len(th.log) >= 3) =>
             th.log[3].args = [k \in {"city", "state"} |-> IF k = "city" THEN "Paris" ELSE "CA"]

\* call_tool was invoked with {} for an empty arguments string, and the
\* query went on to its answer
C12_Witness ==
  /\ threads[Caller].pc = "done"
  /\ threads[Caller].msg # None
  /\ threads[Caller].msg[1].function_call = FunctionCall("get_forecast", Some(<<>>))
  /\ Len(threads[Caller].log) = 4
  /\ threads[Caller].log[3].args = EmptyObject
  /\ threads[Caller].result.kind = "answer"


\* C13: within one process_query execution call_tool is invoked at most once
\* and the LLM is called at most twice, whatever the LLM returns; a follow-up
\* response that itself carries a function call starts no second tool call:
\* the query is Done with the follow-up's content as its answer.
C13_SingleToolRound ==
  \A t \in Threads :
    LET th == threads[t] IN
    th.op = "query" =>
      /\ Cardinality(CallsOf(th, "call_tool")) <= 1
      /\ Cardinality(CallsOf(th, "llm")) <= 2
      /\ (th.follow # None /\ WantsTool(th.follow[1])) =>
            /\ th.pc = "done"
            /\ th.result = Result("answer", FollowupAnswer(th.follow[1]))
            /\ Cardinality(CallsOf(th, "call_tool")) = 1

\* a query is Done whose follow-up response carried a function call
C13_Witness ==
  /\ threads[Caller].pc = "done"
  /\ threads[Caller].op = "query"
  /\ threads[Caller].follow # None
  /\ WantsTool(threads[Caller].follow[1])
  /\ Cardinality(CallsOf(threads[Caller], "call_tool")) = 1
  /\ Cardinality(CallsOf(threads[Caller], "llm")) = 2


\* the target string ends in neither '.py' nor '.js'
Unsupported(path) ==
  /\ ~(Len(path) >= 3 /\ SubSeq(path, Len(path) - 2, Len(path)) = <<".", "p", "y">>)
  /\ ~(Len(path) >= 3 /\ SubSeq(path, Len(path) - 2, Len(path)) = <<".", "j", "s">>)

\* the connect_to_server executions given an unsupported target
UnsupportedConnects ==
  {t \in Threads : threads[t].op = "connect" /\ Unsupported(threads[t].path)}

\* C14: for a target that ends in neither '.py' nor '.js', connect_to_server
\* never reaches the spawn of the tool server (it opens no channel and no
\* session), ends with the unsupported-target result, and leaves the client
\* not connected.
C14_UnsupportedTargetRejected ==
  \A t \in UnsupportedConnects :
    LET th == threads[t] IN
    /\ th.pc \in {"conn_closing", "done"}
    /\ th.id = 0
    /\ th.sess = NoSession
    /\ th.pc = "done" =>
         /\ th.result = Result("unsupported", "")
         /\ ~server_connected

\* connect_to_server, called on a connected client, has torn the old
\* connection down and rejected a target without a dot before "py"
C14_Witness ==
  /\ threads[Caller].acloses = 1
  /\ threads[Caller].pc = "done"
  /\ threads[Caller].op = "connect"
  /\ threads[Caller].path = PathBare
  /\ threads[Caller].result.kind = "unsupported"
  /\ threads[Caller].id = 0


\* the piece of one content item as the specification words it: the textual
\* field whenever the item has one, else the item's own string form
TextOrStr(item) == IF item.text # None THEN item.text[1] ELSE item.str

\* the process_query executions that have received a tool output
ToolResults ==
  {t \in Threads : /\ threads[t].op = "query"
                   /\ threads[t].raw # None
                   /\ Len(threads[t].log) = 4}

\* C15: when the tool output is a list of content items, the content of the
\* tool-result turn is the newline-join, in list order, of one piece per
\* item: the item's textual field whenever it has one (the empty string
\* included), the item's own string form only when it has none.
C15_ListNormalization ==
  \A t \in ToolResults :
    LET th == threads[t]
        items == th.raw[1].items
    IN th.raw[1].shape = "list" =>
         th.log[4].messages[3].content =
           JoinLines([i \in 1..Len(items) |-> TextOrStr(items[i])])


\* the tool-result turns (role "function") of the follow-up LLM calls made
\* by the Tk client's workers
TkToolResultTurns ==
  {workers[w].log[i].messages[3] :
     <<w, i>> \in {p \in (1..Len(workers)) \X (1..4) :
                     /\ p[2] <= Len(workers[p[1]].log)
                     /\ workers[p[1]].log[p[2]].call = "llm"
                     /\ Len(workers[p[1]].log[p[2]].messages) = 3}}

\* C16: for a tool output that is a scalar, an object with a textual field or
\* a list of content items, the value placed in the tool-result turn's
\* content is a string: it is never the tool output object itself (a list of
\* content items, which is not a string).
C16_ToolResultIsString ==
  \A turn \in TkToolResultTurns : turn.content \notin ToolOutputs


\* C17: the first LLM call of each query carries exactly one message, the
\* user turn with that query's text, and the messages of the follow-up call
\* are that user turn, the assistant's function call of this query and the
\* result of this query's tool call: no turn of an earlier query appears in
\* either, whatever the chatbox history holds.
C17_NoConversationMemory ==
  \A t \in Threads :
    LET th == threads[t] IN
    th.op = "query" =>
      /\ Len(th.log) >= 2 =>
           /\ th.log[2].call = "llm"
           /\ th.log[2].messages = <<[role |-> "user", content |-> th.query]>>
      /\ Len(th.log) = 4 =>
           LET fc == th.msg[1].function_call[1] IN
           /\ th.log[4].call = "llm"
           /\ th.log[4].messages =
                << [role |-> "user", content |-> th.query],
                   [role |-> "assistant", function_call |-> fc],
                   [role |-> "function", name |-> fc.name,
                    content |-> Normalize(th.raw[1])] >>

\* a query with a tool exchange is Done after an earlier query with another
\* text has left its turn in the chatbox history
C17_Witness ==
  /\ threads[Caller].pc = "done"
  /\ threads[Caller].op = "query"
  /\ Len(threads[Caller].log) = 4
  /\ history # <<>>
  /\ history[Len(history)].content # threads[Caller].query


\* the kinds of the calls in a coroutine's log, in order
CallKinds(th) == [i \in 1..Len(th.log) |-> th.log[i].call]

\* the collaborator calls of a query in the order the specification gives
QueryOrder == <<"list_tools", "llm", "call_tool", "llm">>

\* C18: the collaborator calls of a process_query execution occur in the
\* order list_tools, first LLM call, call_tool, follow-up LLM call; call_tool
\* is made only after the first LLM response has been received and asked for
\* a tool, the follow-up call only after call_tool has returned, and the
\* follow-up call carries no function specs while the first call does.
C18_EventOrder ==
  \A t \in Threads :
    LET th == threads[t] IN
    th.op = "query" =>
      /\ Len(th.log) <= 4
      /\ CallKinds(th) = SubSeq(QueryOrder, 1, Len(th.log))
      /\ th.pc = "pq_list" => Len(th.log) = 1
      /\ th.pc = "pq_llm1" => Len(th.log) = 2 /\ th.msg = None
      /\ th.pc = "pq_tool" => Len(th.log) = 3 /\ th.raw = None
      /\ th.pc = "pq_llm2" => Len(th.log) = 4 /\ th.follow = None
      /\ Len(th.log) >= 2 => th.log[2].functions # None
      /\ Len(th.log) >= 3 => th.msg # None /\ WantsTool(th.msg[1])
      /\ Len(th.log) = 4 => th.raw # None /\ th.log[4].functions = None
      /\ th.follow # None => Len(th.log) = 4

\* a query has made all four calls and is Done with the follow-up's answer
C18_Witness ==
  /\ threads[Caller].pc = "done"
  /\ threads[Caller].op = "query"
  /\ CallKinds(threads[Caller]) = QueryOrder
  /\ threads[Caller].follow # None
  /\ threads[Caller].result.kind = "answer"


\* thread t calls list_tools or call_tool in this step
ChannelCall(t) ==
  /\ threads'[t].op = "query"
  /\ Len(threads'[t].log) = Len(threads[t].log) + 1
  /\ threads'[t].log[Len(threads'[t].log)].call \in {"list_tools", "call_tool"}

\* C19: with process_query, cleanup and connect_to_server interleaved on the
\* event loop, a process_query that passed the connected check calls
\* list_tools or call_tool only on a session whose context the exit stack
\* still holds (its closing has neither begun nor finished), and in the step
\* in which it makes the call the session it sees connected is open.
C19_NoCallOnTornDownSession ==
  [][\A t \in Threads :
       ChannelCall(t) =>
         /\ SessionOpen(threads'[t].log[Len(threads'[t].log)].sess)
         /\ server_connected => SessionOpen(session)]_vars


\* the responses produced so far, in the order they were put on response_q
Produced == chat \o response_q

\* C20: every query accepted by send_query gets exactly one entry on
\* response_q, and the entries appear in the order in which their queries
\* were enqueued: of any two responses produced, the earlier one answers the
\* query enqueued earlier.
C20_ResponsesInQueryOrder ==
  \A i, j \in 1..Len(Produced) : i < j => Produced[i].n < Produced[j].n

====
